---- MODULE Spec2Model ----
(***************************************************************************)
(* Model of the rockflow context bridge of matxscript:                     *)
(*   include/matxscript/runtime/rockflow.h   class RockflowContext          *)
(*   src/ir/hlo_builtin_rockflow.cc          the rockflow_context builtins  *)
(*                                                                         *)
(* Static initialization runs the eight registrations of                    *)
(* hlo_builtin_rockflow.cc in the order of their definition; afterwards     *)
(* script code calls builtins through the registry.  Native code may call   *)
(* SetInt on a context at any time.  Every call made is appended to `log`   *)
(* together with what it returned.                                          *)
(*                                                                         *)
(* Doubles are written in hundredths (314 stands for 3.14, 0 for 0.0); a    *)
(* string_view is the string it views, the empty view being "".             *)
(***************************************************************************)
EXTENDS Integers, Sequences, FiniteSets, TLC

\* ------------------------------------------------------------------ bounds
\* Number of calls recorded per run.
MaxCalls == 3

\* Attribute names the callers use.
AttrNames == {"score", "flag"}
\* Integer arguments (default values, values written, item indexes).
IntArgs == {1, 7}
\* Double arguments, in hundredths.
DoubleArgs == {314, 250}
\* String default values.
StringArgs == {"dflt", "n/a"}

\* --------------------------------------------------- RockflowContext (rockflow.h)
\* The member functions the class declares, with their parameter types and
\* return type.
RockflowContext ==
  [GetInt        |-> [params |-> <<"std::string", "int64_t">>,     ret |-> "int64_t"],
   GetDouble     |-> [params |-> <<"std::string", "double">>,      ret |-> "double"],
   GetString     |-> [params |-> <<"std::string", "string_view">>, ret |-> "string_view"],
   GetIntList    |-> [params |-> <<"std::string">>,                ret |-> "FTList<int64_t>"],
   GetDoubleList |-> [params |-> <<"std::string">>,                ret |-> "FTList<double>"],
   GetStringList |-> [params |-> <<"std::string">>,                ret |-> "FTList<string_view>"],
   SetInt        |-> [params |-> <<"std::string", "int">>,         ret |-> "int"]]

GetInt_default(attr, default_value) == default_value
GetInt(attr, default_value) == 0

GetDouble(attr, default_value) == 0

GetString(attr, default_value) == ""

GetIntList_one(attr) == <<0>>
GetIntList(attr) == <<>>

GetDoubleList(attr) == <<>>

GetStringList(attr) == <<>>

SetInt(attr, value) == 0

\* ------------------------------------------- registry (hlo_builtin_rockflow.cc)
\* MATXSCRIPT_IR_DEFINE_HLO_METHOD(Prefix, OpName, TargetOp): a fresh entry
\* named Prefix.OpName bound to the method TargetOp.
DefineHloMethod(Prefix, OpName, TargetOp) ==
  [ns |-> Prefix, name |-> OpName, target |-> TargetOp,
   num_inputs |-> -1, arguments |-> <<>>]

set_num_inputs(e, n) == [e EXCEPT !.num_inputs = n]

add_argument(e, name, type, description) ==
  [e EXCEPT !.arguments = Append(@, [name |-> name, type |-> type,
                                     description |-> description])]

get_int ==
  add_argument(add_argument(add_argument(set_num_inputs(
    DefineHloMethod("rockflow_context", "get_int", "GetInt"), 3),
    "self", "RockflowContext", ""),
    "attr_name", "bytes", ""),
    "default_value", "int", "")

get_double ==
  add_argument(add_argument(add_argument(set_num_inputs(
    DefineHloMethod("rockflow_context", "get_double", "GetDouble"), 3),
    "self", "RockflowContext", ""),
    "attr_name", "bytes", ""),
    "default_value", "float", "")

get_string ==
  add_argument(add_argument(add_argument(set_num_inputs(
    DefineHloMethod("rockflow_context", "get_string", "GetString"), 3),
    "self", "RockflowContext", ""),
    "attr_name", "bytes", ""),
    "default_value", "bytes", "")

get_int_list_one_input ==
  add_argument(add_argument(set_num_inputs(
    DefineHloMethod("rockflow_context", "get_int_list", "GetIntList"), 1),
    "self", "RockflowContext", ""),
    "attr_name", "bytes", "")
get_int_list ==
  add_argument(add_argument(set_num_inputs(
    DefineHloMethod("rockflow_context", "get_int_list", "GetIntList"), 2),
    "self", "RockflowContext", ""),
    "attr_name", "bytes", "")

get_double_list ==
  add_argument(add_argument(set_num_inputs(
    DefineHloMethod("rockflow_context", "get_double_list", "GetDoubleList"), 2),
    "self", "RockflowContext", ""),
    "attr_name", "bytes", "")

get_string_list ==
  add_argument(add_argument(set_num_inputs(
    DefineHloMethod("rockflow_context", "get_string_list", "GetStringList"), 2),
    "self", "RockflowContext", ""),
    "attr_name", "bytes", "")

get_item_count ==
  add_argument(set_num_inputs(
    DefineHloMethod("rockflow_context", "get_item_count", "GetItemCount"), 1),
    "self", "RockflowContext", "")

get_item_attr_assigner_noself ==
  add_argument(set_num_inputs(
    DefineHloMethod("rockflow_context", "get_item_attr_assigner", "GetItemAttrAssigner"), 1),
    "index", "int", "")
get_item_attr_assigner ==
  add_argument(add_argument(set_num_inputs(
    DefineHloMethod("rockflow_context", "get_item_attr_assigner", "GetItemAttrAssigner"), 2),
    "self", "RockflowContext", ""),
    "index", "int", "")

\* The static initializers of the translation unit, in definition order.
StaticInitializers ==
  <<get_int, get_double, get_string, get_int_list, get_double_list,
    get_string_list, get_item_count, get_item_attr_assigner>>

NumEntries == Len(StaticInitializers)

\* ------------------------------------------------------------------- state
VARIABLES
  pc,        \* index of the next static initializer to run
  registry,  \* the entries registered so far, in registration order
  log        \* the calls made so far: [op, args, ret]

vars == <<pc, registry, log>>

Initialized == pc > NumEntries

Init ==
  /\ pc = 1
  /\ registry = <<>>
  /\ log = <<>>

\* One static initializer runs: its entry is added to the registry.
Register ==
  /\ pc <= NumEntries
  /\ registry' = Append(registry, StaticInitializers[pc])
  /\ pc' = pc + 1
  /\ UNCHANGED log

\* ------------------------------------------------------------------- calls
\* The values a call site may pass for a declared argument.
ArgDomain(a) ==
  CASE a.type = "int"   -> IntArgs
    [] a.type = "float" -> DoubleArgs
    [] a.type = "bytes" -> IF a.name = "attr_name" THEN AttrNames ELSE StringArgs

\* A call that returned `v`, and a call that has no method to run.
Returned(v) == [ok |-> TRUE, value |-> v]
NoSuchMember == [ok |-> FALSE, value |-> "no member"]

\* The body of the method `m` of an un-overridden RockflowContext.
Invoke(m, args) ==
  CASE m = "GetInt"        -> Returned(GetInt(args[1], args[2]))
    [] m = "GetDouble"     -> Returned(GetDouble(args[1], args[2]))
    [] m = "GetString"     -> Returned(GetString(args[1], args[2]))
    [] m = "GetIntList"    -> Returned(GetIntList(args[1]))
    [] m = "GetDoubleList" -> Returned(GetDoubleList(args[1]))
    [] m = "GetStringList" -> Returned(GetStringList(args[1]))
    [] m = "SetInt"        -> Returned(SetInt(args[1], args[2]))

\* A builtin call forwards to the bound method of the context; the class
\* has to declare that method.
Dispatch(e, args) ==
  IF e.target \in DOMAIN RockflowContext
  THEN Invoke(e.target, args)
  ELSE NoSuchMember

Record(via, op, args, ret) ==
  log' = Append(log, [via |-> via, op |-> op, args |-> args, ret |-> ret])

\* The call a script makes of the registered entry e, with one, two or
\* three inputs (self included).
BuiltinCall(e) ==
  \/ /\ e.num_inputs = 1
     /\ Record("builtin", e.target, <<>>, Dispatch(e, <<>>))
  \/ /\ e.num_inputs = 2
     /\ \E x \in ArgDomain(e.arguments[2]) :
          Record("builtin", e.target, <<x>>, Dispatch(e, <<x>>))
  \/ /\ e.num_inputs = 3
     /\ \E x \in ArgDomain(e.arguments[2]) :
          \E y \in ArgDomain(e.arguments[3]) :
            Record("builtin", e.target, <<x, y>>, Dispatch(e, <<x, y>>))

\* Script code calls a builtin.  Script code runs after static
\* initialization, so every entry is registered when it does.
CallBuiltin_early ==
  /\ Len(log) < MaxCalls
  /\ \E i \in 1..Len(registry) : BuiltinCall(registry[i])
  /\ UNCHANGED <<pc, registry>>
CallBuiltin ==
  /\ Initialized
  /\ Len(log) < MaxCalls
  /\ \E i \in 1..Len(registry) : BuiltinCall(registry[i])
  /\ UNCHANGED <<pc, registry>>

\* Native code calls SetInt on a context; no builtin is registered for it.
\* The method is an inline member that reads and writes nothing, so it can
\* be called at any time, static initialization included.
CallSetInt ==
  /\ Len(log) < MaxCalls
  /\ \E attr \in AttrNames : \E value \in IntArgs :
       Record("native", "SetInt", <<attr, value>>,
              Invoke("SetInt", <<attr, value>>))
  /\ UNCHANGED <<pc, registry>>

Next == Register \/ CallBuiltin \/ CallSetInt

Spec == Init /\ [][Next]_vars

\* ------------------------------------------------------------- properties
Calls == 1..Len(log)

ScalarGetters == {"GetInt", "GetDouble", "GetString"}
ListGetters == {"GetIntList", "GetDoubleList", "GetStringList"}

\* C1: a scalar getter called for an attribute the context does not hold
\* (an un-overridden context holds none) returns the caller's default value
\* unchanged.
C1_ScalarGettersReturnDefault ==
  \A i \in Calls :
    log[i].op \in ScalarGetters =>
      log[i].ret.ok /\ log[i].ret.value = log[i].args[2]

\* C2: a list getter called for an attribute the context does not hold
\* returns a sequence of length 0 and does not fail.
C2_ListGettersReturnEmpty ==
  \A i \in Calls :
    log[i].op \in ListGetters =>
      log[i].ret.ok /\ Len(log[i].ret.value) = 0

C2_Witness ==
  \A m \in ListGetters : \E i \in Calls : log[i].op = m

\* The declared builtin type that stands for a C++ parameter type.
TypeMatches(declared, cpp) ==
  \/ declared = "bytes" /\ cpp \in {"std::string", "string_view"}
  \/ declared = "int"   /\ cpp = "int64_t"
  \/ declared = "float" /\ cpp = "double"

\* C3: once registered, every entry binds to a method RockflowContext
\* declares, has one input more than the method has parameters, and
\* declares for each parameter the matching type, in order.
C3_EntriesMatchSignatures ==
  Initialized =>
    \A i \in 1..Len(registry) :
      LET e == registry[i] IN
        /\ e.target \in DOMAIN RockflowContext
        /\ e.num_inputs = Len(RockflowContext[e.target].params) + 1
        /\ Len(e.arguments) = e.num_inputs
        /\ \A k \in 1..Len(RockflowContext[e.target].params) :
             TypeMatches(e.arguments[k + 1].type,
                         RockflowContext[e.target].params[k])

\* The operations of the context interface.
ContextInterfaceOps ==
  {"GetInt", "GetDouble", "GetString", "GetIntList", "GetDoubleList",
   "GetStringList", "GetItemCount", "GetItemAttrAssigner", "SetInt"}

\* C4: once registered, every operation of the context interface has
\* exactly one registry entry.
C4_OneEntryPerOperation ==
  Initialized =>
    \A op \in ContextInterfaceOps :
      Cardinality({i \in 1..Len(registry) : registry[i].target = op}) = 1

\* C5: the input count of every registered entry equals the number of
\* arguments added to it.
C5_NumInputsEqualsArguments ==
  \A i \in 1..Len(registry) :
    registry[i].num_inputs = Len(registry[i].arguments)

C5_Witness ==
  /\ Initialized
  /\ \E i \in 1..Len(registry) : registry[i].num_inputs = 3
  /\ \E i \in 1..Len(registry) : registry[i].num_inputs = 1

\* C6: GetItemCount() on an un-overridden context returns 0.
C6_GetItemCountReturnsZero ==
  \A i \in Calls :
    log[i].op = "GetItemCount" => log[i].ret.ok /\ log[i].ret.value = 0

\* C7: a SetInt whose write did not take effect (the next GetInt of the
\* attribute does not return the value written) returned a non-zero status.
C7_SetIntReportsFailure ==
  \A i \in Calls :
    ( /\ i < Len(log)
      /\ log[i].op = "SetInt"
      /\ log[i + 1].op = "GetInt"
      /\ log[i + 1].args[1] = log[i].args[1]
      /\ log[i + 1].ret.value # log[i].args[2] )
    => log[i].ret.value # 0

C9_FirstArgumentIsSelf ==
  \A i \in 1..Len(registry) :
    /\ Len(registry[i].arguments) >= 1
    /\ registry[i].arguments[1].name = "self"
    /\ registry[i].arguments[1].type = "RockflowContext"

C9_Witness ==
  /\ Initialized
  /\ \E i \in 1..Len(registry) : registry[i].target = "GetItemAttrAssigner"

\* The zero value or empty container of the return type of method m.
ZeroOf(m) ==
  CASE m \in {"GetInt", "GetDouble", "SetInt"} -> 0
    [] m = "GetString" -> ""
    [] m \in ListGetters -> <<>>

\* C10: on an un-overridden context every method returns the zero value or
\* empty container of its return type, whatever the arguments and whatever
\* was called before.
C10_DefaultsAreZero ==
  \A i \in Calls :
    log[i].op \in DOMAIN RockflowContext =>
      log[i].ret.ok /\ log[i].ret.value = ZeroOf(log[i].op)

C10_Witness ==
  \E i \in Calls :
    /\ i < Len(log)
    /\ log[i].op = "SetInt"
    /\ log[i + 1].op = "GetInt"
    /\ log[i + 1].args[1] = log[i].args[1]
    /\ log[i].args[2] # 0
    /\ log[i + 1].args[2] # 0

====
